---- MODULE Spec2Model ----
(***************************************************************************)
(* TrafficAlert: travel-time retrieval (get_travel_time), ETA formatting   *)
(* (format_eta) and HTTPS email delivery with OAuth refresh                *)
(* (refresh_access_token, send_email_alert) of src/traffic_alert.py, and   *)
(* the index view of src/app.py that calls them for a JSON or form POST.   *)
(*                                                                         *)
(* One behaviour is one call of one of the functions, or one request to    *)
(* the view.  The remote                                                   *)
(* services (directions provider, token endpoint, email API) are the       *)
(* environment: every reply they can give is chosen with \E.               *)
(***************************************************************************)
EXTENDS Integers, Sequences, FiniteSets, TLC

VARIABLES
    op,                  \* the function this behaviour calls
    pc,                  \* position inside it
    result,              \* how the call ended: [kind, exc, msg]
    \* ---- send_email_alert: arguments
    email_api_url, email_api_key, email_refresh_token,
    oauth_client_id, oauth_client_secret, oauth_token_url,
    \* ---- send_email_alert: locals
    token_used, refreshed_token, response, payload,
    \* ---- history of the network-facing calls made by send_email_alert
    calls,
    \* ---- get_travel_time: the provider's reply and the returned minutes
    provider, travel_minutes,
    \* ---- format_eta: argument and returned text
    minutes, eta_display,
    \* ---- index view: the request, the configuration, the view's locals,
    \* ---- its response, the flashed messages, the calls into traffic_alert
    request, config, frame, http, flashes, upstream

vars == << op, pc, result,
           email_api_url, email_api_key, email_refresh_token,
           oauth_client_id, oauth_client_secret, oauth_token_url,
           token_used, refreshed_token, response, payload, calls,
           provider, travel_minutes, minutes, eta_display,
           request, config, frame, http, flashes, upstream >>

appVars == << request, config, frame, http, flashes, upstream >>

emailVars == << email_api_url, email_api_key, email_refresh_token,
                oauth_client_id, oauth_client_secret, oauth_token_url,
                token_used, refreshed_token, response, payload, calls >>

(***************************************************************************)
(* Python values.                                                          *)
(***************************************************************************)

\* Optional[str]: None or a string.
None == [isNone |-> TRUE, s |-> ""]

Str(s) == [isNone |-> FALSE, s |-> s]

\* Python truthiness of an Optional[str]: None and "" are falsy.
Truthy(x) == ~x.isNone /\ x.s # ""

\* A text as the sequence of its characters, and back to a string.
RECURSIVE Join(_)
Join(cs) == IF cs = << >> THEN "" ELSE cs[1] \o Join(Tail(cs))

\* str.lower() on one character (the letters the URLs below use).
LowerChar(c) ==
    CASE c = "H" -> "h" [] c = "T" -> "t" [] c = "P" -> "p"
      [] c = "S" -> "s" [] c = "M" -> "m" [] OTHER -> c

\* str.lower()
Lower(cs) == [i \in 1..Len(cs) |-> LowerChar(cs[i])]

\* str.startswith(prefix)
StartsWith(cs, prefix) ==
    Len(cs) >= Len(prefix) /\ SubSeq(cs, 1, Len(prefix)) = prefix

\* needle in haystack (substring test on str)
Contains(cs, needle) ==
    \E i \in 1..(Len(cs) - Len(needle) + 1) :
        SubSeq(cs, i, i + Len(needle) - 1) = needle

IsSpace(c) == c = " "

\* str.strip()
RECURSIVE StripLeft(_)
StripLeft(cs) ==
    IF cs # << >> /\ IsSpace(cs[1]) THEN StripLeft(Tail(cs)) ELSE cs

RECURSIVE StripRight(_)
StripRight(cs) ==
    IF cs # << >> /\ IsSpace(cs[Len(cs)])
    THEN StripRight(SubSeq(cs, 1, Len(cs) - 1)) ELSE cs

Strip(cs) == StripRight(StripLeft(cs))

HttpsPrefix == <<"h","t","t","p","s",":","/","/">>

GmailHost == <<"g","m","a","i","l",".","g","o","o","g","l","e","a","p","i","s",".","c","o","m">>

(***************************************************************************)
(* JSON values as response.json() yields them: None, int, str, list, dict. *)
(* Every value has the same shape; kids holds a list's items (k = "") or a *)
(* dict's items (k = the key).                                             *)
(***************************************************************************)
JNull == [t |-> "null", n |-> 0, s |-> << >>, kids |-> << >>]

JNum(n) == [t |-> "num", n |-> n, s |-> << >>, kids |-> << >>]

\* True or False; int(True) is 1
JBool(b) == [t |-> "bool", n |-> IF b THEN 1 ELSE 0, s |-> << >>, kids |-> << >>]

\* a str, held as the sequence of its characters
JStr(cs) == [t |-> "str", n |-> 0, s |-> cs, kids |-> << >>]

JArr(items) ==
    [t |-> "arr", n |-> 0, s |-> << >>,
     kids |-> [i \in 1..Len(items) |-> [k |-> "", v |-> items[i]]]]

\* items: a sequence of <<key, value>> pairs with distinct keys
JObj(items) ==
    [t |-> "obj", n |-> 0, s |-> << >>,
     kids |-> [i \in 1..Len(items) |-> [k |-> items[i][1], v |-> items[i][2]]]]

\* key in dict
HasKey(d, key) == \E i \in 1..Len(d.kids) : d.kids[i].k = key

\* dict[key] for a key that is present
Item(d, key) == d.kids[CHOOSE i \in 1..Len(d.kids) : d.kids[i].k = key].v

\* bool(value)
JTruthy(j) ==
    CASE j.t = "null" -> FALSE
      [] j.t = "num"  -> j.n # 0
      [] j.t = "bool" -> j.n # 0
      [] j.t = "str"  -> j.s # << >>
      [] OTHER        -> Len(j.kids) > 0

\* str(value), as an f-string or str(exc) renders it
PyStr(j) ==
    CASE j.t = "null" -> "None"
      [] j.t = "num"  -> ToString(j.n)
      [] j.t = "bool" -> IF j.n # 0 THEN "True" ELSE "False"
      [] j.t = "str"  -> Join(j.s)
      [] j.t = "arr"  -> "[...]"
      [] OTHER        -> "{...}"

\* dict.get(key, default); only the caller knows that the value is a dict
DictGet(d, key, default) == IF HasKey(d, key) THEN Item(d, key) ELSE default

(***************************************************************************)
(* How a call ends.                                                        *)
(***************************************************************************)
Running == [kind |-> "running", exc |-> "", msg |-> ""]

Returned == [kind |-> "return", exc |-> "", msg |-> ""]

Raise(exc, msg) == [kind |-> "raise", exc |-> exc, msg |-> msg]

\* A number of minutes as the fraction num / den: value / 60.0 is value over 60.
Minutes(seconds) == [num |-> seconds, den |-> 60]

NoMinutes == [num |-> 0, den |-> 1]

\* An HTTP exchange with a remote service: a transport failure
\* (requests.RequestException) or a response with a status code and a body
\* that response.json() parses (json_ok, body) or not (text).
TransportFailure ==
    [err |-> TRUE, status_code |-> 0, json_ok |-> FALSE, body |-> JNull, text |-> << >>]

JsonReply(code, body) ==
    [err |-> FALSE, status_code |-> code, json_ok |-> TRUE, body |-> body, text |-> << >>]

TextReply(code, text) ==
    [err |-> FALSE, status_code |-> code, json_ok |-> FALSE, body |-> JNull, text |-> text]

NoResponse == TextReply(0, << >>)

(***************************************************************************)
(* refresh_access_token                                                    *)
(***************************************************************************)

\* The replies of the token endpoint.
TokenReplies ==
    { TransportFailure,
      JsonReply(200, JObj(<< <<"access_token", JStr(<<"a","t","-","1">>)>> >>)),
      JsonReply(200, JObj(<< <<"access_token", JStr(<<"a","t","-","2">>)>> >>)),
      JsonReply(200, JObj(<< <<"access_token", JStr(<< >>)>> >>)),
      JsonReply(200, JObj(<< <<"token_type", JStr(<<"B","e","a","r","e","r">>)>> >>)),
      JsonReply(200, JArr(<< >>)),
      TextReply(200, <<"o","k">>),
      JsonReply(400, JObj(<< <<"error", JStr(<<"i","n","v","a","l","i","d","_","g","r","a","n","t">>)>>,
                             <<"error_description", JStr(<<"T","o","k","e","n"," ","r","e","v","o","k","e","d">>)>> >>)),
      JsonReply(401, JObj(<< <<"error", JStr(<<"i","n","v","a","l","i","d","_","c","l","i","e","n","t">>)>> >>)),
      JsonReply(400, JStr(<<"i","n","v","a","l","i","d","_","g","r","a","n","t">>)),
      TextReply(500, <<" ","d","o","w","n"," ">>),
      TextReply(503, <<" "," ">>) }

\* lines 111-121: the error raised for a non-200 token response
TokenErrorOf(reply) ==
    IF reply.json_ok
    THEN IF reply.body.t # "obj"
         THEN Raise("AttributeError", "object has no attribute 'get'")
         ELSE LET d1 == DictGet(reply.body, "error_description", JNull)
                  error_detail ==
                      IF JTruthy(d1) THEN d1 ELSE DictGet(reply.body, "error", JNull)
              IN  IF JTruthy(error_detail)
                  THEN Raise("EmailDeliveryError",
                             "Unable to refresh email access token: " \o PyStr(error_detail))
                  ELSE Raise("EmailDeliveryError", "Unable to refresh email access token")
    ELSE LET error_detail == Join(Strip(reply.text))
         IN  IF error_detail # ""
             THEN Raise("EmailDeliveryError",
                        "Unable to refresh email access token: " \o error_detail)
             ELSE Raise("EmailDeliveryError", "Unable to refresh email access token")

\* line 96
TokenUrlAccepted(token_url) == StartsWith(Lower(token_url), HttpsPrefix)

\* refresh_access_token(token_url=token_url) when the token endpoint answers
\* reply: [res |-> how it ends, token |-> the returned access token,
\*         posted |-> whether the POST was made]
refresh_access_token(token_url, reply) ==
    IF ~TokenUrlAccepted(token_url)
    THEN [res |-> Raise("EmailDeliveryError", "OAuth token URL must use HTTPS"),
          token |-> None, posted |-> FALSE]
    ELSE IF reply.err
    THEN [res |-> Raise("EmailDeliveryError", "Failed to refresh email access token"),
          token |-> None, posted |-> TRUE]
    ELSE IF reply.status_code # 200
    THEN [res |-> TokenErrorOf(reply), token |-> None, posted |-> TRUE]
    ELSE IF ~reply.json_ok
    THEN [res |-> Raise("EmailDeliveryError", "Token endpoint returned invalid JSON"),
          token |-> None, posted |-> TRUE]
    ELSE IF reply.body.t # "obj"
    THEN [res |-> Raise("AttributeError", "object has no attribute 'get'"),
          token |-> None, posted |-> TRUE]
    ELSE LET access_token == DictGet(reply.body, "access_token", JNull)
         IN  IF ~JTruthy(access_token)
             THEN [res |-> Raise("EmailDeliveryError",
                                 "Token endpoint response was missing an access_token"),
                   token |-> None, posted |-> TRUE]
             ELSE [res |-> Returned, token |-> Str(PyStr(access_token)), posted |-> TRUE]

(***************************************************************************)
(* send_email_alert                                                        *)
(***************************************************************************)

\* The replies of the email API.
SendReplies ==
    { TransportFailure,
      JsonReply(200, JObj(<< <<"id", JStr(<<"m","-","1">>)>> >>)),
      TextReply(204, << >>),
      TextReply(399, <<"o","k">>),
      JsonReply(400, JObj(<< <<"message", JStr(<<"b","a","d"," ","r","e","q","u","e","s","t">>)>> >>)),
      JsonReply(401, JObj(<< <<"error", JStr(<<"i","n","v","a","l","i","d"," ","t","o","k","e","n">>)>> >>)),
      TextReply(401, <<" "," ">>),
      JsonReply(401, JStr(<<"U","n","a","u","t","h","o","r","i","z","e","d">>)),
      JsonReply(403, JObj(<< >>)),
      TextReply(500, <<"B","a","d"," ","G","a","t","e","w","a","y">>) }

\* A faulty variant: any complete or partial set of refresh credentials counts.
RefreshAvailable_Any ==
    Truthy(email_refresh_token) \/ Truthy(oauth_client_id) \/ Truthy(oauth_client_secret)

\* line 153: refresh_available
RefreshAvailable ==
    Truthy(email_refresh_token) /\ Truthy(oauth_client_id) /\ Truthy(oauth_client_secret)

\* A faulty variant: any http scheme is let through, secure or not.
EmailUrlAccepted_HttpToo(url) == StartsWith(Lower(url), <<"h","t","t","p">>)

\* line 150
EmailUrlAccepted(url) == StartsWith(Lower(url), HttpsPrefix)

\* lines 166-179: the shape of the JSON payload
PayloadFor(url) == IF Contains(url, GmailHost) THEN "raw" ELSE "flat"

\* lines 210-220: the error raised for a final response with status >= 400
SendErrorOf(reply) ==
    IF reply.json_ok
    THEN IF reply.body.t # "obj"
         THEN Raise("AttributeError", "object has no attribute 'get'")
         ELSE LET d1 == DictGet(reply.body, "error", JNull)
                  error_detail ==
                      IF JTruthy(d1) THEN d1 ELSE DictGet(reply.body, "message", JNull)
              IN  IF JTruthy(error_detail)
                  THEN Raise("EmailDeliveryError",
                             "Email API rejected the request: " \o PyStr(error_detail))
                  ELSE Raise("EmailDeliveryError", "Email API rejected the request")
    ELSE LET error_detail == Join(Strip(reply.text))
         IN  IF error_detail # ""
             THEN Raise("EmailDeliveryError",
                        "Email API rejected the request: " \o error_detail)
             ELSE Raise("EmailDeliveryError", "Email API rejected the request")

\* One entry of the call history.
ExchangeCall(site, r, reply) ==
    [call |-> "exchange", site |-> site, posted |-> r.posted,
     ok |-> r.res.kind = "return", token |-> r.token,
     status |-> IF r.posted THEN reply.status_code ELSE 0]

SendCall(site, token, reply) ==
    [call |-> "send", site |-> site, posted |-> TRUE,
     ok |-> ~reply.err, token |-> token, status |-> reply.status_code]

\* lines 150-164 up to the first network call
SendEmailAlert_Begin ==
    /\ op = "send_email_alert" /\ pc = "start"
    /\ IF ~EmailUrlAccepted(email_api_url)
       THEN /\ result' = Raise("EmailDeliveryError", "Email API URL must use HTTPS")
            /\ pc' = "done"
            /\ UNCHANGED << token_used, payload >>
       ELSE IF ~Truthy(email_api_key) /\ RefreshAvailable
       THEN /\ pc' = "initial_exchange"
            /\ token_used' = email_api_key
            /\ UNCHANGED << result, payload >>
       ELSE IF ~Truthy(email_api_key)
       THEN /\ result' = Raise("EmailDeliveryError",
                               "Email API key missing and no refresh token available")
            /\ pc' = "done"
            /\ token_used' = email_api_key
            /\ UNCHANGED payload
       ELSE /\ pc' = "deliver"
            /\ token_used' = email_api_key
            /\ payload' = PayloadFor(email_api_url)
            /\ UNCHANGED result
    /\ UNCHANGED << op, email_api_url, email_api_key, email_refresh_token,
                    oauth_client_id, oauth_client_secret, oauth_token_url,
                    refreshed_token, response, calls,
                    provider, travel_minutes, minutes, eta_display, appVars >>

\* lines 156-162: the exchange before the first send; its error propagates
InitialTokenExchange ==
    /\ op = "send_email_alert" /\ pc = "initial_exchange"
    /\ \E reply \in TokenReplies :
         LET r == refresh_access_token(oauth_token_url, reply)
         IN  /\ calls' = Append(calls, ExchangeCall("initial", r, reply))
             /\ IF r.res.kind = "return"
                THEN /\ token_used' = r.token
                     /\ payload' = PayloadFor(email_api_url)
                     /\ pc' = "deliver"
                     /\ UNCHANGED result
                ELSE /\ result' = r.res
                     /\ pc' = "done"
                     /\ UNCHANGED << token_used, payload >>
    /\ UNCHANGED << op, email_api_url, email_api_key, email_refresh_token,
                    oauth_client_id, oauth_client_secret, oauth_token_url,
                    refreshed_token, response,
                    provider, travel_minutes, minutes, eta_display, appVars >>

\* A faulty variant: every 401 is retried, whatever credentials are present.
RetryWanted_Always(reply) == reply.status_code = 401

\* line 194
RetryWanted(reply) == reply.status_code = 401 /\ RefreshAvailable

\* lines 189-194: the first send and the decision to refresh
FirstSend ==
    /\ op = "send_email_alert" /\ pc = "deliver"
    /\ \E reply \in SendReplies :
         /\ calls' = Append(calls, SendCall("first", token_used, reply))
         /\ IF reply.err
            THEN /\ result' = Raise("EmailDeliveryError", "Failed to reach the email API")
                 /\ pc' = "done"
                 /\ UNCHANGED response
            ELSE /\ response' = reply
                 /\ pc' = IF RetryWanted(reply) THEN "retry_exchange" ELSE "check"
                 /\ UNCHANGED result
    /\ UNCHANGED << op, email_api_url, email_api_key, email_refresh_token,
                    oauth_client_id, oauth_client_secret, oauth_token_url,
                    token_used, refreshed_token, payload,
                    provider, travel_minutes, minutes, eta_display, appVars >>

\* lines 195-203: the exchange after a 401; an EmailDeliveryError is swallowed
RetryTokenExchange ==
    /\ op = "send_email_alert" /\ pc = "retry_exchange"
    /\ \E reply \in TokenReplies :
         LET r == refresh_access_token(oauth_token_url, reply)
         IN  /\ calls' = Append(calls, ExchangeCall("retry", r, reply))
             /\ IF r.res.kind = "return"
                THEN /\ refreshed_token' = r.token
                     /\ pc' = "retry_deliver"
                     /\ UNCHANGED result
                ELSE IF r.res.exc = "EmailDeliveryError"
                THEN /\ pc' = "check"
                     /\ UNCHANGED << result, refreshed_token >>
                ELSE /\ result' = r.res
                     /\ pc' = "done"
                     /\ UNCHANGED refreshed_token
    /\ UNCHANGED << op, email_api_url, email_api_key, email_refresh_token,
                    oauth_client_id, oauth_client_secret, oauth_token_url,
                    token_used, response, payload,
                    provider, travel_minutes, minutes, eta_display, appVars >>

\* A faulty variant: the retried send's response is dropped and the stale 401 kept.
RetrySend_StaleResponse ==
    /\ op = "send_email_alert" /\ pc = "retry_deliver"
    /\ \E reply \in SendReplies :
         /\ calls' = Append(calls, SendCall("retry", refreshed_token, reply))
         /\ IF reply.err
            THEN /\ result' = Raise("EmailDeliveryError", "Failed to reach the email API")
                 /\ pc' = "done"
            ELSE /\ pc' = "check"
                 /\ UNCHANGED result
    /\ UNCHANGED << op, email_api_url, email_api_key, email_refresh_token,
                    oauth_client_id, oauth_client_secret, oauth_token_url,
                    token_used, refreshed_token, response, payload,
                    provider, travel_minutes, minutes, eta_display, appVars >>

\* A faulty variant: the retried send carries the token that was rejected.
RetrySend_StaleToken ==
    /\ op = "send_email_alert" /\ pc = "retry_deliver"
    /\ \E reply \in SendReplies :
         /\ calls' = Append(calls, SendCall("retry", token_used, reply))
         /\ IF reply.err
            THEN /\ result' = Raise("EmailDeliveryError", "Failed to reach the email API")
                 /\ pc' = "done"
                 /\ UNCHANGED response
            ELSE /\ response' = reply
                 /\ pc' = "check"
                 /\ UNCHANGED result
    /\ UNCHANGED << op, email_api_url, email_api_key, email_refresh_token,
                    oauth_client_id, oauth_client_secret, oauth_token_url,
                    token_used, refreshed_token, payload,
                    provider, travel_minutes, minutes, eta_display, appVars >>

\* A faulty variant: the retried send goes back to the 401 test.
RetrySend_Loop ==
    /\ op = "send_email_alert" /\ pc = "retry_deliver"
    /\ Len(calls) < 8
    /\ \E reply \in SendReplies :
         /\ calls' = Append(calls, SendCall("retry", refreshed_token, reply))
         /\ IF reply.err
            THEN /\ result' = Raise("EmailDeliveryError", "Failed to reach the email API")
                 /\ pc' = "done"
                 /\ UNCHANGED response
            ELSE /\ response' = reply
                 /\ pc' = IF RetryWanted(reply) THEN "retry_exchange" ELSE "check"
                 /\ UNCHANGED result
    /\ UNCHANGED << op, email_api_url, email_api_key, email_refresh_token,
                    oauth_client_id, oauth_client_secret, oauth_token_url,
                    token_used, refreshed_token, payload,
                    provider, travel_minutes, minutes, eta_display, appVars >>

\* lines 205-208: the retried send; its response is final
RetrySend ==
    /\ op = "send_email_alert" /\ pc = "retry_deliver"
    /\ \E reply \in SendReplies :
         /\ calls' = Append(calls, SendCall("retry", refreshed_token, reply))
         /\ IF reply.err
            THEN /\ result' = Raise("EmailDeliveryError", "Failed to reach the email API")
                 /\ pc' = "done"
                 /\ UNCHANGED response
            ELSE /\ response' = reply
                 /\ pc' = "check"
                 /\ UNCHANGED result
    /\ UNCHANGED << op, email_api_url, email_api_key, email_refresh_token,
                    oauth_client_id, oauth_client_secret, oauth_token_url,
                    token_used, refreshed_token, payload,
                    provider, travel_minutes, minutes, eta_display, appVars >>

\* line 210
Rejected(reply) == reply.status_code >= 400

\* lines 210-220: the final response decides the outcome
CheckResponse ==
    /\ op = "send_email_alert" /\ pc = "check"
    /\ result' = IF Rejected(response) THEN SendErrorOf(response) ELSE Returned
    /\ pc' = "done"
    /\ UNCHANGED << op, emailVars, provider, travel_minutes, minutes, eta_display, appVars >>

(***************************************************************************)
(* app.py: what the index view works with.                                 *)
(***************************************************************************)
\* lines 15-23: the fields of AppConfig that the view reads
AppConfig(api_key, email_from, email_password, threshold) ==
    [google_maps_api_key |-> api_key, email_from |-> email_from,
     email_password |-> email_password, alert_threshold_minutes |-> threshold]

NoConfig == AppConfig(None, None, None, 0)

\* line 70: a POST whose body is JSON (request.is_json), parsed by get_json
JsonRequest(body) == [is_json |-> TRUE, body |-> body]

\* line 166: any other POST; request.form maps field names to str values
FormRequest(form) == [is_json |-> FALSE, body |-> form]

NoRequest == FormRequest(JNull)

\* lines 73-78, 93, 115-116: the locals of the view
NoFrame ==
    [origin |-> << >>, destination |-> << >>, email_to |-> << >>,
     notify |-> FALSE, notification_sent |-> FALSE,
     threshold_str |-> JNull, threshold |-> 0,
     should_alert |-> FALSE, alert_sent |-> FALSE]

\* What the view answers with.
NoReply ==
    [status |-> 0, kind |-> "", ok |-> FALSE, error |-> "",
     has_result |-> FALSE, should_alert |-> FALSE, alert_sent |-> FALSE]

\* lines 81-84 and alike: jsonify({"ok": False, "error": error}), code
JsonError(code, error) ==
    [NoReply EXCEPT !.status = code, !.kind = "json", !.error = error]

\* lines 151-164: jsonify(payload), with Flask's default status 200
JsonOk(should_alert, alert_sent) ==
    [NoReply EXCEPT !.status = 200, !.kind = "json", !.ok = TRUE, !.has_result = TRUE,
                    !.should_alert = should_alert, !.alert_sent = alert_sent]

\* line 175 and alike: redirect(url_for("index"))
Redirect == [NoReply EXCEPT !.status = 302, !.kind = "redirect"]

\* line 241: render_template("index.html", result=result, ...)
Rendered(has_result) ==
    [NoReply EXCEPT !.status = 200, !.kind = "html", !.has_result = has_result]

\* flash(message, category)
Flash(message, category) == [category |-> category, message |-> message]

\* A call from the view into traffic_alert and how it ended.
Upstream(fn, outcome) == [fn |-> fn, outcome |-> outcome]

\* No request is being served.
IdleApp ==
    /\ request = NoRequest
    /\ config = NoConfig
    /\ frame = NoFrame
    /\ http = NoReply
    /\ flashes = << >>
    /\ upstream = << >>

\* The arguments send_email_alert is called with.
EmailApiUrls ==
    { <<"h","t","t","p","s",":","/","/","m","a","i","l",".","e","x","a","m","p","l","e","/","v","1">>,
      <<"H","T","T","P","S",":","/","/","M","a","i","l",".","e","x","a","m","p","l","e","/","v","1">>,
      <<"h","t","t","p","s",":","/","/","g","m","a","i","l",".","g","o","o","g","l","e","a","p","i","s",".","c","o","m","/","s","e","n","d">>,
      <<"h","t","t","p",":","/","/","m","a","i","l",".","e","x","a","m","p","l","e","/","v","1">>,
      <<"m","a","i","l",".","e","x","a","m","p","l","e">> }

TokenUrls ==
    { <<"h","t","t","p","s",":","/","/","o","a","u","t","h","2",".","g","o","o","g","l","e","a","p","i","s",".","c","o","m","/","t","o","k","e","n">>,
      <<"h","t","t","p",":","/","/","o","a","u","t","h","2",".","l","o","c","a","l","/","t","o","k","e","n">> }

InitEmail ==
    /\ op = "send_email_alert"
    /\ email_api_url \in EmailApiUrls
    /\ email_api_key \in {None, Str(""), Str("static-key")}
    /\ email_refresh_token \in {None, Str(""), Str("refresh-1")}
    /\ oauth_client_id \in {None, Str("client-1")}
    /\ oauth_client_secret \in {None, Str("secret-1")}
    /\ oauth_token_url \in TokenUrls
    /\ token_used = None
    /\ refreshed_token = None
    /\ response = NoResponse
    /\ payload = ""
    /\ calls = << >>
    /\ provider = NoResponse
    /\ travel_minutes = NoMinutes
    /\ minutes = NoMinutes
    /\ eta_display = << >>
    /\ IdleApp

(***************************************************************************)
(* get_travel_time                                                         *)
(***************************************************************************)

\* The outcome of one Python expression: a value, or the exception it raises.
Ok(v) == [exc |-> "", v |-> v]

Err(exc) == [exc |-> exc, v |-> JNull]

\* x[key] for a str key: a dict looks the key up (KeyError when missing);
\* a list or a str takes no str index and None or a number no index at all.
GetItem(x, key) ==
    IF x.t = "obj"
    THEN IF HasKey(x, key) THEN Ok(Item(x, key)) ELSE Err("KeyError")
    ELSE Err("TypeError")

\* x[0]: a dict parsed from JSON has str keys only (KeyError); a list or a
\* str gives its first item or character (IndexError when empty).
GetFirst(x) ==
    CASE x.t = "obj" -> Err("KeyError")
      [] x.t = "arr" -> IF Len(x.kids) > 0 THEN Ok(x.kids[1].v) ELSE Err("IndexError")
      [] x.t = "str" -> IF Len(x.s) > 0 THEN Ok(JStr(<< x.s[1] >>)) ELSE Err("IndexError")
      [] OTHER       -> Err("TypeError")

\* line 64: data["routes"][0]["legs"][0]
FirstLeg(data) ==
    LET routes == GetItem(data, "routes")
    IN  IF routes.exc # "" THEN routes
        ELSE LET route == GetFirst(routes.v)
             IN  IF route.exc # "" THEN route
                 ELSE LET legs == GetItem(route.v, "legs")
                      IN  IF legs.exc # "" THEN legs ELSE GetFirst(legs.v)

ValueKey == <<"v","a","l","u","e">>

\* "value" in duration_block, for a truthy duration_block
HasValue(block) ==
    CASE block.t = "obj" -> Ok(IF HasKey(block, "value") THEN JNum(1) ELSE JNum(0))
      [] block.t = "arr" ->
           Ok(IF \E i \in 1..Len(block.kids) : block.kids[i].v = JStr(ValueKey)
              THEN JNum(1) ELSE JNum(0))
      [] block.t = "str" -> Ok(IF Contains(block.s, ValueKey) THEN JNum(1) ELSE JNum(0))
      [] OTHER           -> Err("TypeError")

\* line 68: leg.get("duration_in_traffic") or leg.get("duration"), leg a dict
DurationBlock(leg) ==
    LET in_traffic == DictGet(leg, "duration_in_traffic", JNull)
    IN  IF JTruthy(in_traffic) THEN in_traffic ELSE DictGet(leg, "duration", JNull)

\* lines 68-72, for the leg found
TravelTimeOfLeg(leg) ==
    IF leg.t # "obj"
    THEN [res |-> Raise("AttributeError", "object has no attribute 'get'"),
          minutes |-> NoMinutes]
    ELSE LET duration_block == DurationBlock(leg)
             has == IF JTruthy(duration_block) THEN HasValue(duration_block) ELSE Ok(JNum(0))
         IN  IF has.exc # ""
             THEN [res |-> Raise(has.exc, "argument is not iterable"),
                   minutes |-> NoMinutes]
             ELSE IF has.v.n = 0
             THEN [res |-> Raise("TravelTimeError",
                                 "Directions API did not include a travel time."),
                   minutes |-> NoMinutes]
             ELSE LET value == GetItem(duration_block, "value")
                  IN  IF value.exc # ""
                      THEN [res |-> Raise(value.exc, "indices must be integers"),
                            minutes |-> NoMinutes]
                      ELSE IF value.v.t # "num"
                      THEN [res |-> Raise("TypeError", "unsupported operand type(s) for /"),
                            minutes |-> NoMinutes]
                      ELSE [res |-> Returned, minutes |-> Minutes(value.v.n)]

StatusOK == <<"O","K">>

StatusZeroResults == <<"Z","E","R","O","_","R","E","S","U","L","T","S">>

StatusUnknown == <<"U","N","K","N","O","W","N">>

\* lines 56-61: the error raised for a status other than "OK"
StatusErrorOf(data, status) ==
    IF status = JStr(StatusZeroResults)
    THEN Raise("TravelTimeError", "No route found between the selected locations.")
    ELSE LET error_message == DictGet(data, "error_message", JNull)
         IN  IF JTruthy(error_message)
             THEN Raise("TravelTimeError", PyStr(error_message))
             ELSE Raise("TravelTimeError", "Directions API error: " \o PyStr(status))

\* line 57
StatusIsOK(status) == status = JStr(StatusOK)

\* A faulty variant: a body that parses is read whatever the HTTP status.
get_travel_time_BodyFirst(reply) ==
    IF reply.err
    THEN [res |-> Raise("TravelTimeError", "Unable to contact the Google Directions API"),
          minutes |-> NoMinutes]
    ELSE IF ~reply.json_ok
    THEN [res |-> Raise("TravelTimeError", "Directions API returned an unreadable response"),
          minutes |-> NoMinutes]
    ELSE IF reply.body.t # "obj"
    THEN [res |-> Raise("AttributeError", "object has no attribute 'get'"),
          minutes |-> NoMinutes]
    ELSE LET data == reply.body
             status == DictGet(data, "status", JStr(StatusUnknown))
         IN  IF ~StatusIsOK(status)
             THEN [res |-> StatusErrorOf(data, status), minutes |-> NoMinutes]
             ELSE LET leg == FirstLeg(data)
                  IN  IF leg.exc \in {"KeyError", "IndexError"}
                      THEN [res |-> Raise("TravelTimeError",
                                          "Directions API response was missing route data"),
                            minutes |-> NoMinutes]
                      ELSE IF leg.exc # ""
                      THEN [res |-> Raise(leg.exc, "object is not subscriptable"),
                            minutes |-> NoMinutes]
                      ELSE TravelTimeOfLeg(leg.v)

\* lines 41-72: get_travel_time when the directions provider answers reply
get_travel_time(reply) ==
    IF reply.err
    THEN [res |-> Raise("TravelTimeError", "Unable to contact the Google Directions API"),
          minutes |-> NoMinutes]
    ELSE IF reply.status_code # 200
    THEN [res |-> Raise("TravelTimeError",
                        "Directions API request failed with HTTP "
                            \o ToString(reply.status_code)),
          minutes |-> NoMinutes]
    ELSE IF ~reply.json_ok
    THEN [res |-> Raise("TravelTimeError", "Directions API returned an unreadable response"),
          minutes |-> NoMinutes]
    ELSE IF reply.body.t # "obj"
    THEN [res |-> Raise("AttributeError", "object has no attribute 'get'"),
          minutes |-> NoMinutes]
    ELSE LET data == reply.body
             status == DictGet(data, "status", JStr(StatusUnknown))
         IN  IF ~StatusIsOK(status)
             THEN [res |-> StatusErrorOf(data, status), minutes |-> NoMinutes]
             ELSE LET leg == FirstLeg(data)
                  IN  IF leg.exc \in {"KeyError", "IndexError"}
                      THEN [res |-> Raise("TravelTimeError",
                                          "Directions API response was missing route data"),
                            minutes |-> NoMinutes]
                      ELSE IF leg.exc # ""
                      THEN [res |-> Raise(leg.exc, "object is not subscriptable"),
                            minutes |-> NoMinutes]
                      ELSE TravelTimeOfLeg(leg.v)

\* ---- the responses of the directions provider

\* A field the provider left out of an object.
Absent == [t |-> "absent", n |-> 0, s |-> << >>, kids |-> << >>]

\* An object of the listed fields, without those that are Absent.
RECURSIVE Present(_)
Present(items) ==
    IF items = << >> THEN << >>
    ELSE IF items[1][2] = Absent THEN Present(Tail(items))
    ELSE << items[1] >> \o Present(Tail(items))

ObjOf(items) == JObj(Present(items))

\* The largest duration a provider response carries, in half minutes.
MaxHalfMinutes == 4

\* What the provider may put where a duration block belongs: nothing, null,
\* an object with or without a value (of any type), or another type.
DurationBlocks ==
    { Absent, JNull, JObj(<< >>),
      JObj(<< <<"text", JStr(<<"1"," ","h","o","u","r">>)>> >>),
      JObj(<< <<"value", JStr(<<"9","0">>)>> >>),
      JObj(<< <<"value", JNull>> >>),
      JStr(<<"n","o"," ","v","a","l","u","e">>), JStr(<<"n","/","a">>),
      JNum(5), JArr(<< JStr(ValueKey) >>) }
    \cup { JObj(<< <<"text", JStr(<<"e","t","a">>)>>, <<"value", JNum(30 * k)>> >>) :
             k \in 0..MaxHalfMinutes }

Legs ==
    { ObjOf(<< <<"duration_in_traffic", a>>, <<"duration", b>> >>) :
        a \in DurationBlocks, b \in DurationBlocks }
    \cup { JNull, JStr(<<"x">>), JArr(<< >>), JNum(1) }

GoodLeg ==
    JObj(<< <<"duration_in_traffic", JObj(<< <<"value", JNum(3600)>> >>)>>,
            <<"duration", JObj(<< <<"value", JNum(3000)>> >>)>> >>)

\* Values that are no list of items.
Malformed ==
    { Absent, JNull, JArr(<< >>), JObj(<< >>), JStr(<< >>), JStr(<<"a","b">>), JNum(0) }

LegsValues == { JArr(<< leg >>) : leg \in Legs } \cup Malformed

Routes ==
    { ObjOf(<< <<"summary", JStr(<<"I","-","5">>)>>, <<"legs", legs>> >>) :
        legs \in LegsValues }
    \cup { JNull, JStr(<<"r">>), JNum(2) }

RoutesValues == { JArr(<< route >>) : route \in Routes } \cup Malformed

GoodRoutes == JArr(<< JObj(<< <<"legs", JArr(<< GoodLeg >>)>> >>) >>)

Statuses ==
    { Absent, JNull, JNum(7), JStr(StatusOK), JStr(StatusZeroResults),
      JStr(<<"R","E","Q","U","E","S","T","_","D","E","N","I","E","D">>) }

ErrorMessages ==
    { Absent, JNull, JStr(<< >>), JStr(<<"T","h","e"," ","k","e","y"," ","i","s"," ","i","n","v","a","l","i","d",".">>) }

DirectionsBody(status, error_message, routes) ==
    ObjOf(<< <<"status", status>>, <<"error_message", error_message>>,
             <<"routes", routes>> >>)

DirectionsBodies ==
    { DirectionsBody(JStr(StatusOK), Absent, routes) : routes \in RoutesValues }
    \cup { DirectionsBody(status, error_message, routes) :
             status \in Statuses, error_message \in ErrorMessages,
             routes \in {Absent, GoodRoutes} }
    \cup { JNull, JArr(<< >>), JStr(StatusOK), JNum(1),
           JArr(<< DirectionsBody(JStr(StatusOK), Absent, GoodRoutes) >>) }

DirectionsReplies ==
    { TransportFailure }
    \cup { JsonReply(200, body) : body \in DirectionsBodies }
    \cup { JsonReply(code, DirectionsBody(JStr(StatusOK), Absent, GoodRoutes)) :
             code \in {201, 403, 500} }
    \cup { TextReply(code, <<"<","h","t","m","l",">">>) : code \in {200, 404} }

\* lines 24-72: the call, from the request to its outcome
GetTravelTime ==
    /\ op = "get_travel_time" /\ pc = "start"
    /\ LET r == get_travel_time(provider)
       IN  /\ result' = r.res
           /\ travel_minutes' = r.minutes
    /\ pc' = "done"
    /\ UNCHANGED << op, emailVars, provider, minutes, eta_display, appVars >>

InitTravel ==
    /\ op = "get_travel_time"
    /\ provider \in DirectionsReplies
    /\ email_api_url = << >>
    /\ email_api_key = None
    /\ email_refresh_token = None
    /\ oauth_client_id = None
    /\ oauth_client_secret = None
    /\ oauth_token_url = << >>
    /\ token_used = None
    /\ refreshed_token = None
    /\ response = NoResponse
    /\ payload = ""
    /\ calls = << >>
    /\ travel_minutes = NoMinutes
    /\ minutes = NoMinutes
    /\ eta_display = << >>
    /\ IdleApp

(***************************************************************************)
(* format_eta                                                              *)
(***************************************************************************)

\* round(x) for x = num / den, den > 0: the nearest integer, a tie going to
\* the even one.
RoundHalfEven(x) ==
    LET q == x.num \div x.den
        r == x.num % x.den
    IN  IF 2 * r < x.den THEN q
        ELSE IF 2 * r > x.den THEN q + 1
        ELSE IF q % 2 = 0 THEN q ELSE q + 1

DigitChar(d) ==
    CASE d = 0 -> "0" [] d = 1 -> "1" [] d = 2 -> "2" [] d = 3 -> "3" [] d = 4 -> "4"
      [] d = 5 -> "5" [] d = 6 -> "6" [] d = 7 -> "7" [] d = 8 -> "8" [] d = 9 -> "9"

IsDigit(c) == c \in {"0", "1", "2", "3", "4", "5", "6", "7", "8", "9"}

DigitValue(c) == CHOOSE d \in 0..9 : DigitChar(d) = c

\* The number a text of digits writes.
RECURSIVE NumberOf(_)
NumberOf(ds) ==
    IF ds = << >> THEN 0
    ELSE 10 * NumberOf(SubSeq(ds, 1, Len(ds) - 1)) + DigitValue(ds[Len(ds)])

\* str(n) of an int n >= 0, as f"{n}" renders it
RECURSIVE NatChars(_)
NatChars(n) ==
    IF n < 10 THEN << DigitChar(n) >> ELSE NatChars(n \div 10) \o << DigitChar(n % 10) >>

\* str(n) of an int
IntChars(n) == IF n < 0 THEN << "-" >> \o NatChars(-n) ELSE NatChars(n)

\* A faulty variant: the hour count is left out whenever minutes remain.
format_eta_NoHours(m) ==
    LET total_minutes == RoundHalfEven(m)
        hours == total_minutes \div 60
        mins == total_minutes % 60
    IN  IF hours # 0 /\ mins = 0
        THEN IntChars(hours) \o <<" ","h","r">>
        ELSE IntChars(mins) \o <<" ","m","i","n">>

\* lines 77-84
format_eta(m) ==
    LET total_minutes == RoundHalfEven(m)
        hours == total_minutes \div 60
        mins == total_minutes % 60
    IN  IF hours # 0 /\ mins # 0
        THEN IntChars(hours) \o <<" ","h","r"," ">> \o IntChars(mins) \o <<" ","m","i","n">>
        ELSE IF hours # 0
        THEN IntChars(hours) \o <<" ","h","r">>
        ELSE IntChars(mins) \o <<" ","m","i","n">>

\* lines 75-84: the call
FormatEta ==
    /\ op = "format_eta" /\ pc = "start"
    /\ eta_display' = format_eta(minutes)
    /\ result' = Returned
    /\ pc' = "done"
    /\ UNCHANGED << op, emailVars, provider, travel_minutes, minutes, appVars >>

\* The largest argument of format_eta, in whole minutes; arguments are the
\* tenths of a minute from 0 to it.
MaxMinutes == 130

InitEta ==
    /\ op = "format_eta"
    /\ minutes \in { [num |-> k, den |-> 10] : k \in 0..(10 * MaxMinutes) }
    /\ provider = NoResponse
    /\ email_api_url = << >>
    /\ email_api_key = None
    /\ email_refresh_token = None
    /\ oauth_client_id = None
    /\ oauth_client_secret = None
    /\ oauth_token_url = << >>
    /\ token_used = None
    /\ refreshed_token = None
    /\ response = NoResponse
    /\ payload = ""
    /\ calls = << >>
    /\ travel_minutes = NoMinutes
    /\ eta_display = << >>
    /\ IdleApp

(***************************************************************************)
(* app.py: the index view, JSON branch (lines 70-164).                     *)
(***************************************************************************)
\* (value or "").strip(), lines 73-75: a falsy value gives "", a str is
\* stripped, any other truthy value has no strip method
OrEmptyStrip(value) ==
    IF ~JTruthy(value) THEN [exc |-> "", v |-> << >>]
    ELSE IF value.t = "str" THEN [exc |-> "", v |-> Strip(value.s)]
    ELSE [exc |-> "AttributeError", v |-> << >>]

\* The digits of an int literal, after its sign.
Unsigned(cs) == IF cs # << >> /\ cs[1] \in {"+", "-"} THEN Tail(cs) ELSE cs

\* int(value), lines 93 and 182: an int or bool is itself; a str is parsed
\* after stripping (ValueError unless a sign and digits); None, a list and a
\* dict are refused with TypeError
IntOf(value) ==
    CASE value.t \in {"num", "bool"} -> [exc |-> "", n |-> value.n]
      [] value.t = "str" ->
           LET cs == Strip(value.s)
               ds == Unsigned(cs)
           IN  IF ds # << >> /\ \A i \in 1..Len(ds) : IsDigit(ds[i])
               THEN [exc |-> "", n |-> IF cs[1] = "-" THEN 0 - NumberOf(ds) ELSE NumberOf(ds)]
               ELSE [exc |-> "ValueError", n |-> 0]
      [] OTHER -> [exc |-> "TypeError", n |-> 0]

\* lines 80 and 173
MissingAddress(origin, destination) == origin = << >> \/ destination = << >>

\* lines 86 and 177
MissingRecipient(notify, email_to) == notify /\ email_to = << >>

\* A faulty variant: a missing Maps API key is not noticed.
ApiKeyMissing_Never(cfg) == FALSE

\* lines 98 and 187
ApiKeyMissing(cfg) == ~Truthy(cfg.google_maps_api_key)

\* A faulty variant: a travel time equal to the threshold does not alert.
ShouldAlert_Strict(m, threshold) == m.num < threshold * m.den

\* lines 115 and 208: travel_minutes <= threshold
ShouldAlert(m, threshold) == m.num <= threshold * m.den

\* A faulty variant: notificationSent is not looked at.
NotifyWanted_Again(f) == f.notify /\ f.should_alert

\* line 118
NotifyWanted(f) == f.notify /\ f.should_alert /\ ~f.notification_sent

\* lines 122 and 214
CredentialsMissing(cfg) == ~Truthy(cfg.email_from) \/ ~Truthy(cfg.email_password)

\* traffic_alert.py lines 135-147: the keyword-only parameters of
\* send_email_alert without a default, and those with one
RequiredKeywords ==
    {"email_from", "email_api_key", "email_api_url", "email_to", "subject", "body"}

OptionalKeywords ==
    {"email_refresh_token", "oauth_client_id", "oauth_client_secret", "oauth_token_url"}

\* lines 139-145 and 225-231: the keywords the view passes
ViewKeywords == {"email_from", "email_password", "email_to", "subject", "body"}

\* Python binds the keywords before the body runs: an unknown keyword or a
\* missing required one raises TypeError.
BindKeywords(keywords) ==
    IF ~(keywords \subseteq RequiredKeywords \cup OptionalKeywords)
    THEN Raise("TypeError", "send_email_alert() got an unexpected keyword argument")
    ELSE IF ~(RequiredKeywords \subseteq keywords)
    THEN Raise("TypeError", "send_email_alert() missing required keyword-only arguments")
    ELSE Returned

\* How a call of send_email_alert with these keywords can end: refused at
\* binding, or run, and then it returns or fails with EmailDeliveryError.
SendOutcomes(keywords) ==
    IF BindKeywords(keywords).kind = "raise"
    THEN { BindKeywords(keywords) }
    ELSE { Returned, Raise("EmailDeliveryError", "Failed to reach the email API") }

\* lines 71-78: the body is read into the view's locals
IndexJson_Read ==
    /\ op = "index_json" /\ pc = "start"
    /\ LET data == IF JTruthy(request.body) THEN request.body ELSE JObj(<< >>)
           origin == OrEmptyStrip(DictGet(data, "origin", JNull))
           destination == OrEmptyStrip(DictGet(data, "destination", JNull))
           email_to == OrEmptyStrip(DictGet(data, "email", JNull))
       IN  IF data.t # "obj"
           THEN /\ result' = Raise("AttributeError", "object has no attribute 'get'")
                /\ pc' = "done"
                /\ UNCHANGED frame
           ELSE IF \E x \in {origin, destination, email_to} : x.exc # ""
           THEN /\ result' = Raise("AttributeError", "object has no attribute 'strip'")
                /\ pc' = "done"
                /\ UNCHANGED frame
           ELSE /\ frame' = [frame EXCEPT
                     !.origin = origin.v,
                     !.destination = destination.v,
                     !.email_to = email_to.v,
                     !.notify = JTruthy(DictGet(data, "notify", JNull)),
                     !.notification_sent = JTruthy(DictGet(data, "notificationSent", JNull)),
                     !.threshold_str =
                         DictGet(data, "threshold",
                                 JStr(IntChars(config.alert_threshold_minutes)))]
                /\ pc' = "validate"
                /\ UNCHANGED result
    /\ UNCHANGED << op, emailVars, provider, travel_minutes, minutes, eta_display,
                    request, config, http, flashes, upstream >>

\* lines 80-107: validation, before anything is asked of a provider
IndexJson_Validate ==
    /\ op = "index_json" /\ pc = "validate"
    /\ LET t == IntOf(frame.threshold_str)
           threshold == IF t.exc = "" THEN t.n ELSE config.alert_threshold_minutes
       IN  IF MissingAddress(frame.origin, frame.destination)
           THEN /\ http' = JsonError(400, "Provide both origin and destination.")
                /\ result' = Returned /\ pc' = "done"
                /\ UNCHANGED frame
           ELSE IF MissingRecipient(frame.notify, frame.email_to)
           THEN /\ http' = JsonError(400, "Enter an email address to notify.")
                /\ result' = Returned /\ pc' = "done"
                /\ UNCHANGED frame
           ELSE IF t.exc = "TypeError"
           THEN /\ result' = Raise("TypeError", "int() argument must be a string or a number")
                /\ pc' = "done"
                /\ UNCHANGED << frame, http >>
           ELSE IF ApiKeyMissing(config)
           THEN /\ http' = JsonError(400, "Google Maps API key missing. Set GOOGLE_MAPS_API_KEY.")
                /\ result' = Returned /\ pc' = "done"
                /\ frame' = [frame EXCEPT !.threshold = threshold]
           ELSE /\ frame' = [frame EXCEPT !.threshold = threshold]
                /\ pc' = "travel"
                /\ UNCHANGED << result, http >>
    /\ UNCHANGED << op, emailVars, provider, travel_minutes, minutes, eta_display,
                    request, config, flashes, upstream >>

\* lines 109-116: one call of get_travel_time; TravelTimeError answers 502,
\* any other error leaves the view uncaught
IndexJson_TravelTime ==
    /\ op = "index_json" /\ pc = "travel"
    /\ LET r == get_travel_time(provider)
       IN  /\ upstream' = Append(upstream, Upstream("get_travel_time", r.res))
           /\ IF r.res.kind = "raise" /\ r.res.exc = "TravelTimeError"
              THEN /\ http' = JsonError(502, r.res.msg)
                   /\ result' = Returned /\ pc' = "done"
                   /\ UNCHANGED << travel_minutes, eta_display, frame >>
              ELSE IF r.res.kind = "raise"
              THEN /\ result' = r.res /\ pc' = "done"
                   /\ UNCHANGED << travel_minutes, eta_display, frame, http >>
              ELSE /\ travel_minutes' = r.minutes
                   /\ eta_display' = format_eta(r.minutes)
                   /\ frame' = [frame EXCEPT
                        !.should_alert = ShouldAlert(r.minutes, frame.threshold),
                        !.alert_sent = FALSE]
                   /\ pc' = "notify"
                   /\ UNCHANGED << result, http >>
    /\ UNCHANGED << op, emailVars, provider, minutes, request, config, flashes >>

\* lines 118-149: the alert, when wanted; EmailDeliveryError answers 502,
\* any other error leaves the view uncaught
IndexJson_Notify ==
    /\ op = "index_json" /\ pc = "notify"
    /\ IF ~NotifyWanted(frame)
       THEN /\ pc' = "respond"
            /\ UNCHANGED << result, frame, http, upstream >>
       ELSE IF CredentialsMissing(config)
       THEN /\ http' = JsonError(400,
                 "Email credentials missing. Set EMAIL_FROM and EMAIL_APP_PASSWORD.")
            /\ result' = Returned /\ pc' = "done"
            /\ UNCHANGED << frame, upstream >>
       ELSE \E outcome \in SendOutcomes(ViewKeywords) :
              /\ upstream' = Append(upstream, Upstream("send_email_alert", outcome))
              /\ IF outcome.kind = "raise" /\ outcome.exc = "EmailDeliveryError"
                 THEN /\ http' = JsonError(502, outcome.msg)
                      /\ result' = Returned /\ pc' = "done"
                      /\ UNCHANGED frame
                 ELSE IF outcome.kind = "raise"
                 THEN /\ result' = outcome /\ pc' = "done"
                      /\ UNCHANGED << frame, http >>
                 ELSE /\ frame' = [frame EXCEPT !.alert_sent = TRUE]
                      /\ pc' = "respond"
                      /\ UNCHANGED << result, http >>
    /\ UNCHANGED << op, emailVars, provider, travel_minutes, minutes, eta_display,
                    request, config, flashes >>

\* lines 151-164: the 200 answer
IndexJson_Respond ==
    /\ op = "index_json" /\ pc = "respond"
    /\ http' = JsonOk(frame.should_alert, frame.alert_sent)
    /\ result' = Returned
    /\ pc' = "done"
    /\ UNCHANGED << op, emailVars, provider, travel_minutes, minutes, eta_display,
                    request, config, frame, flashes, upstream >>

(***************************************************************************)
(* app.py: the index view, form branch (lines 166-241).                    *)
(***************************************************************************)
\* request.form.get(key, ""), lines 167-169
FormGet(form, key) == DictGet(form, key, JStr(<< >>))

\* lines 167-192: the form is read and validated; a refusal is flashed and
\* the browser redirected
IndexForm_Validate ==
    /\ op = "index_form" /\ pc = "start"
    /\ LET form == request.body
           origin == Strip(FormGet(form, "origin").s)
           destination == Strip(FormGet(form, "destination").s)
           email_to == Strip(FormGet(form, "email").s)
           notify == JTruthy(DictGet(form, "notify", JNull))
           threshold_str == DictGet(form, "threshold",
                                    JStr(IntChars(config.alert_threshold_minutes)))
           t == IntOf(threshold_str)
           threshold == IF t.exc = "" THEN t.n ELSE config.alert_threshold_minutes
           read == [frame EXCEPT !.origin = origin, !.destination = destination,
                                 !.email_to = email_to, !.notify = notify,
                                 !.threshold_str = threshold_str]
           refused(message) ==
               /\ flashes' = Append(flashes, Flash(message, "error"))
               /\ http' = Redirect
               /\ result' = Returned /\ pc' = "done"
       IN  IF MissingAddress(origin, destination)
           THEN /\ refused("Please provide both origin and destination addresses.")
                /\ frame' = read
           ELSE IF MissingRecipient(notify, email_to)
           THEN /\ refused("Enter an email address to receive notifications.")
                /\ frame' = read
           ELSE IF t.exc = "TypeError"
           THEN /\ result' = Raise("TypeError", "int() argument must be a string or a number")
                /\ pc' = "done"
                /\ frame' = read
                /\ UNCHANGED << http, flashes >>
           ELSE IF ApiKeyMissing(config)
           THEN /\ refused("Google Maps API key missing. Set the GOOGLE_MAPS_API_KEY environment variable.")
                /\ frame' = [read EXCEPT !.threshold = threshold]
           ELSE /\ frame' = [read EXCEPT !.threshold = threshold]
                /\ pc' = "travel"
                /\ UNCHANGED << result, http, flashes >>
    /\ UNCHANGED << op, emailVars, provider, travel_minutes, minutes, eta_display,
                    request, config, upstream >>

\* lines 194-208: one call of get_travel_time
IndexForm_TravelTime ==
    /\ op = "index_form" /\ pc = "travel"
    /\ LET r == get_travel_time(provider)
       IN  /\ upstream' = Append(upstream, Upstream("get_travel_time", r.res))
           /\ IF r.res.kind = "raise" /\ r.res.exc = "TravelTimeError"
              THEN /\ flashes' = Append(flashes, Flash(r.res.msg, "error"))
                   /\ http' = Redirect
                   /\ result' = Returned /\ pc' = "done"
                   /\ UNCHANGED << travel_minutes, eta_display, frame >>
              ELSE IF r.res.kind = "raise"
              THEN /\ result' = r.res /\ pc' = "done"
                   /\ UNCHANGED << travel_minutes, eta_display, frame, http, flashes >>
              ELSE /\ travel_minutes' = r.minutes
                   /\ eta_display' = format_eta(r.minutes)
                   /\ frame' = [frame EXCEPT
                        !.should_alert = ShouldAlert(r.minutes, frame.threshold)]
                   /\ pc' = "notify"
                   /\ UNCHANGED << result, http, flashes >>
    /\ UNCHANGED << op, emailVars, provider, minutes, request, config >>

\* lines 210-241: the alert, when wanted, and the page with the result
IndexForm_Notify ==
    /\ op = "index_form" /\ pc = "notify"
    /\ IF frame.notify /\ frame.should_alert
       THEN IF CredentialsMissing(config)
            THEN /\ flashes' = Append(flashes, Flash(
                      "Email credentials are missing. Set EMAIL_FROM and EMAIL_APP_PASSWORD in the environment.",
                      "error"))
                 /\ http' = Rendered(TRUE)
                 /\ result' = Returned
                 /\ UNCHANGED upstream
            ELSE \E outcome \in SendOutcomes(ViewKeywords) :
                   /\ upstream' = Append(upstream, Upstream("send_email_alert", outcome))
                   /\ IF outcome.kind = "raise" /\ outcome.exc = "EmailDeliveryError"
                      THEN /\ flashes' = Append(flashes, Flash(outcome.msg, "error"))
                           /\ http' = Rendered(TRUE)
                           /\ result' = Returned
                      ELSE IF outcome.kind = "raise"
                      THEN /\ result' = outcome
                           /\ UNCHANGED << http, flashes >>
                      ELSE /\ flashes' = Append(flashes, Flash(
                                "Email alert sent to " \o Join(frame.email_to) \o ".",
                                "success"))
                           /\ http' = Rendered(TRUE)
                           /\ result' = Returned
       ELSE /\ flashes' =
                 IF frame.notify /\ ~frame.should_alert
                 THEN Append(flashes, Flash(
                        "No alert sent because the travel time is above the configured threshold.",
                        "info"))
                 ELSE flashes
            /\ http' = Rendered(TRUE)
            /\ result' = Returned
            /\ UNCHANGED upstream
    /\ pc' = "done"
    /\ UNCHANGED << op, emailVars, provider, travel_minutes, minutes, eta_display,
                    request, config, frame >>

\* send_email_alert itself is not running.
IdleEmail ==
    /\ email_api_url = << >>
    /\ email_api_key = None
    /\ email_refresh_token = None
    /\ oauth_client_id = None
    /\ oauth_client_secret = None
    /\ oauth_token_url = << >>
    /\ token_used = None
    /\ refreshed_token = None
    /\ response = NoResponse
    /\ payload = ""
    /\ calls = << >>

\* The configurations the application may run with (lines 26-56).
AppConfigs ==
    { AppConfig(api_key, creds[1], creds[2], 2) :
        api_key \in {None, Str("maps-key")},
        creds \in { <<Str("me@example.com"), Str("app-password")>>,
                    <<None, Str("app-password")>>,
                    <<Str("me@example.com"), Str("")>> } }

\* What the directions provider answers a request of the view: a route of
\* some duration, no route, a failure, or JSON that is no object.
RouteOf(seconds) ==
    JArr(<< JObj(<< <<"legs",
        JArr(<< JObj(<< <<"duration_in_traffic",
                          JObj(<< <<"value", JNum(seconds)>> >>)>> >>) >>)>> >>) >>)

ViewReplies ==
    { JsonReply(200, DirectionsBody(JStr(StatusOK), Absent, RouteOf(30 * k))) :
        k \in 0..MaxHalfMinutes }
    \cup { TransportFailure,
           JsonReply(500, DirectionsBody(JStr(StatusOK), Absent, RouteOf(60))),
           JsonReply(200, DirectionsBody(JStr(StatusZeroResults), Absent, Absent)),
           JsonReply(200, JArr(<< JStr(StatusOK) >>)) }

AddressA == <<" ","1"," ","A"," ","S","t"," ">>

AddressB == <<"2"," ","B"," ","R","d">>

Recipient == <<"y","o","u","@","e","x","a","m","p","l","e",".","c","o","m">>

\* The JSON bodies a client may post.
JsonBodies ==
    { ObjOf(<< <<"origin", a[1]>>, <<"destination", a[2]>>, <<"email", email>>,
               <<"notify", notify>>, <<"notificationSent", sent>>,
               <<"threshold", threshold>> >>) :
        a \in { <<Absent, JStr(AddressB)>>, <<JStr(<<" ">>), JStr(AddressB)>>,
                <<JStr(AddressA), JStr(<< >>)>>, <<JStr(AddressA), JStr(AddressB)>>,
                <<JNum(5), JStr(AddressB)>> },
        email \in { Absent, JStr(Recipient) },
        notify \in { Absent, JBool(FALSE), JBool(TRUE) },
        sent \in { Absent, JBool(TRUE) },
        threshold \in { Absent, JStr(<<"1">>), JStr(<<" ","2"," ">>),
                        JStr(<<"s","o","o","n">>), JNull } }
    \cup { JNull, JArr(<< >>), JArr(<< JStr(AddressA) >>) }

\* The forms a browser may post.
Forms ==
    { ObjOf(<< <<"origin", a[1]>>, <<"destination", a[2]>>, <<"email", email>>,
               <<"notify", notify>>, <<"threshold", threshold>> >>) :
        a \in { <<JStr(<<" ">>), JStr(AddressB)>>, <<JStr(AddressA), Absent>>,
                <<JStr(AddressA), JStr(AddressB)>> },
        email \in { JStr(<< >>), JStr(Recipient) },
        notify \in { Absent, JStr(<<"o","n">>) },
        threshold \in { Absent, JStr(<<"1">>), JStr(<<"s","o","o","n">>) } }

InitApp ==
    /\ config \in AppConfigs
    /\ provider \in ViewReplies
    /\ frame = NoFrame
    /\ http = NoReply
    /\ flashes = << >>
    /\ upstream = << >>
    /\ travel_minutes = NoMinutes
    /\ minutes = NoMinutes
    /\ eta_display = << >>
    /\ IdleEmail

InitJson ==
    /\ op = "index_json"
    /\ request \in { JsonRequest(body) : body \in JsonBodies }
    /\ InitApp

InitForm ==
    /\ op = "index_form"
    /\ request \in { FormRequest(form) : form \in Forms }
    /\ InitApp

Init ==
    /\ pc = "start"
    /\ result = Running
    /\ \/ InitEmail
       \/ InitTravel
       \/ InitEta
       \/ InitJson
       \/ InitForm

Next ==
    \/ SendEmailAlert_Begin
    \/ InitialTokenExchange
    \/ FirstSend
    \/ RetryTokenExchange
    \/ RetrySend
    \/ CheckResponse
    \/ GetTravelTime
    \/ FormatEta
    \/ IndexJson_Read
    \/ IndexJson_Validate
    \/ IndexJson_TravelTime
    \/ IndexJson_Notify
    \/ IndexJson_Respond
    \/ IndexForm_Validate
    \/ IndexForm_TravelTime
    \/ IndexForm_Notify

Spec == Init /\ [][Next]_vars

(***************************************************************************)
(* The call history, read back.                                            *)
(***************************************************************************)
SendIdx == { i \in DOMAIN calls : calls[i].call = "send" }

ExchangeIdx == { i \in DOMAIN calls : calls[i].call = "exchange" }

\* The status codes of the sends that were answered, in order.
IsAnsweredSend(c) == c.call = "send" /\ c.ok

AnsweredSends == SelectSeq(calls, IsAnsweredSend)

\* All three refresh credentials were supplied.
CredentialsPresent ==
    /\ Truthy(email_refresh_token)
    /\ Truthy(oauth_client_id)
    /\ Truthy(oauth_client_secret)

\* The first send was answered with HTTP 401.
FirstSendUnauthorized ==
    \E i \in SendIdx :
        /\ \A j \in SendIdx : i <= j
        /\ calls[i].ok /\ calls[i].status = 401

\* The exchanges and the sends made after the first send.
ExchangesAfterFirstSend ==
    { j \in ExchangeIdx : \E i \in SendIdx : i < j }

SendsAfterFirstSend ==
    { j \in SendIdx : \E i \in SendIdx : i < j }

InSendEmailAlert == op = "send_email_alert"

Done == pc = "done"

(***************************************************************************)
(* C1.  A call of send_email_alert never makes more than two sends and     *)
(* never more than one token exchange after its first send.  When the      *)
(* first send is answered 401 and all three refresh credentials are        *)
(* present, the finished call has attempted exactly one exchange after     *)
(* that response, and when that exchange succeeded exactly one retried     *)
(* send followed it, whatever the retried send was answered (a 401         *)
(* included).                                                              *)
(***************************************************************************)
C1_RetryOnce ==
    InSendEmailAlert =>
        /\ Cardinality(SendIdx) <= 2
        /\ Cardinality(ExchangesAfterFirstSend) <= 1
        /\ (Done /\ FirstSendUnauthorized /\ CredentialsPresent) =>
              /\ Cardinality(ExchangesAfterFirstSend) = 1
              /\ \A j \in ExchangesAfterFirstSend :
                    /\ calls[j].ok =>
                          /\ Cardinality(SendsAfterFirstSend) = 1
                          /\ \A k \in SendsAfterFirstSend : k = j + 1 /\ k = Len(calls)
                    /\ ~calls[j].ok => SendsAfterFirstSend = {}

\* A finished call whose retried send was answered 401 again.
C1_Witness ==
    /\ InSendEmailAlert /\ Done /\ CredentialsPresent
    /\ Len(AnsweredSends) = 2
    /\ AnsweredSends[1].status = 401 /\ AnsweredSends[2].status = 401

(***************************************************************************)
(* C2.  When the first send is answered 401, the refresh credentials are   *)
(* present and the token exchange made for the retry fails, the call makes *)
(* no second send and fails with the EmailDeliveryError built from the     *)
(* 401 response; the failure of the exchange does not reach the caller.    *)
(***************************************************************************)
C2_RefreshFailureSwallowed ==
    ( /\ InSendEmailAlert /\ Done
      /\ FirstSendUnauthorized /\ CredentialsPresent
      /\ \E j \in ExchangesAfterFirstSend : ~calls[j].ok )
    =>
        /\ Cardinality(SendIdx) = 1
        /\ result.kind = "raise"
        /\ result.exc = "EmailDeliveryError"
        /\ result = SendErrorOf(response)

(***************************************************************************)
(* C3.  A call with an HTTPS email API URL and refresh credentials whose   *)
(* first send is answered 401 and whose retried send is answered 200       *)
(* succeeds after exactly two sends.  As first stated: with exactly one    *)
(* token exchange in the whole call.                                       *)
(***************************************************************************)
RetrySucceeded ==
    /\ InSendEmailAlert /\ Done /\ CredentialsPresent
    /\ StartsWith(Lower(email_api_url), HttpsPrefix)
    /\ Len(AnsweredSends) = 2
    /\ AnsweredSends[1].status = 401 /\ AnsweredSends[2].status = 200

C3_Original_OneExchangeInTotal ==
    RetrySucceeded =>
        /\ result.kind = "return"
        /\ Cardinality(SendIdx) = 2
        /\ Cardinality(ExchangeIdx) = 1

(***************************************************************************)
(* C3, amended.  Such a call succeeds after exactly two sends; it makes    *)
(* one token exchange when a static token was supplied (the refresh after  *)
(* the 401) and two when none was (the initial one and the refresh).       *)
(***************************************************************************)
C3_RetrySucceeds ==
    RetrySucceeded =>
        /\ result.kind = "return"
        /\ Cardinality(SendIdx) = 2
        /\ Cardinality(ExchangeIdx) = IF Truthy(email_api_key) THEN 1 ELSE 2
        /\ Cardinality(ExchangesAfterFirstSend) = 1

\* The retry succeeded in a call that had to fetch its first token too.
C3_Witness == RetrySucceeded /\ ~Truthy(email_api_key)

(***************************************************************************)
(* C4.  A call whose email API URL does not start with https://, in any    *)
(* letter case, makes no network call at any point (no token exchange, no  *)
(* send) and ends with an EmailDeliveryError, whatever credentials it was  *)
(* given.                                                                  *)
(***************************************************************************)
C4_InsecureUrlNoNetwork ==
    (InSendEmailAlert /\ ~StartsWith(Lower(email_api_url), HttpsPrefix)) =>
        /\ calls = << >>
        /\ pc \in {"start", "done"}
        /\ Done => result.kind = "raise" /\ result.exc = "EmailDeliveryError"

\* A rejected http:// call that came with a static token and credentials.
C4_Witness ==
    /\ InSendEmailAlert /\ Done
    /\ StartsWith(email_api_url, <<"h","t","t","p",":">>)
    /\ Truthy(email_api_key) /\ CredentialsPresent
    /\ result.msg = "Email API URL must use HTTPS"

(***************************************************************************)
(* C5.  As first stated: every call without a static token and without     *)
(* the full set of refresh credentials fails with "Email API key missing   *)
(* and no refresh token available", no network call made.                  *)
(***************************************************************************)
NoTokenSource == InSendEmailAlert /\ ~Truthy(email_api_key) /\ ~CredentialsPresent

KeyMissingError ==
    Raise("EmailDeliveryError", "Email API key missing and no refresh token available")

C5_Original_AnyUrl ==
    NoTokenSource =>
        /\ calls = << >>
        /\ Done => result = KeyMissingError

(***************************************************************************)
(* C5, amended.  Every call with an HTTPS email API URL, without a static  *)
(* token and without the full set of refresh credentials, fails with       *)
(* "Email API key missing and no refresh token available", no network call *)
(* made.  (With another URL the call fails earlier, on the URL.)           *)
(***************************************************************************)
C5_NoTokenSourceFails ==
    (NoTokenSource /\ StartsWith(Lower(email_api_url), HttpsPrefix)) =>
        /\ calls = << >>
        /\ pc \in {"start", "done"}
        /\ Done => result = KeyMissingError

\* Such a call, ended, that had two of the three credentials.
C5_Witness ==
    /\ NoTokenSource /\ Done
    /\ StartsWith(Lower(email_api_url), HttpsPrefix)
    /\ Truthy(email_refresh_token) /\ Truthy(oauth_client_secret)
    /\ result = KeyMissingError


(***************************************************************************)
(* C6.  A finished call that received a send response returned normally    *)
(* exactly when the last response received has a status below 400, and     *)
(* for every last status of 400 or more it failed with EmailDeliveryError. *)
(***************************************************************************)
C6_OutcomeFollowsFinalStatus ==
    (InSendEmailAlert /\ Done /\ AnsweredSends # << >>) =>
        LET final == AnsweredSends[Len(AnsweredSends)].status
        IN  /\ result.kind = "return" <=> final < 400
            /\ final >= 400 => result.kind = "raise" /\ result.exc = "EmailDeliveryError"

(***************************************************************************)
(* C7.  Whatever the directions provider answers, get_travel_time returns  *)
(* a value or fails with TravelTimeError, never with another error.        *)
(***************************************************************************)
InGetTravelTime == op = "get_travel_time"

C7_OnlyTypedErrors ==
    (InGetTravelTime /\ Done) =>
        \/ result.kind = "return"
        \/ result.kind = "raise" /\ result.exc = "TravelTimeError"

(***************************************************************************)
(* C8.  For an HTTP 200 response with status OK and a first leg whose      *)
(* duration fields are well typed (each absent, null or an object, a value *)
(* being a number): the result is duration_in_traffic.value / 60 when that *)
(* value is present, else duration.value / 60 when that one is present,    *)
(* and only with both values absent the TravelTimeError "Directions API    *)
(* did not include a travel time."                                         *)
(***************************************************************************)
\* The block is an object carrying a value.
CarriesValue(block) == block.t = "obj" /\ HasKey(block, "value")

WellTypedBlock(block) ==
    /\ block.t \in {"null", "obj"}
    /\ CarriesValue(block) => Item(block, "value").t = "num"

\* The provider answered 200 with an object whose status is "OK".
AnsweredOK ==
    /\ InGetTravelTime
    /\ ~provider.err /\ provider.status_code = 200 /\ provider.json_ok
    /\ provider.body.t = "obj"
    /\ HasKey(provider.body, "status")
    /\ Item(provider.body, "status") = JStr(StatusOK)

C8_FallbackWheneverValueAbsent ==
    (AnsweredOK /\ Done /\ FirstLeg(provider.body).exc = "") =>
        LET leg == FirstLeg(provider.body).v
        IN  leg.t = "obj" =>
              LET in_traffic == DictGet(leg, "duration_in_traffic", JNull)
                  duration == DictGet(leg, "duration", JNull)
              IN  (WellTypedBlock(in_traffic) /\ WellTypedBlock(duration)) =>
                    IF CarriesValue(in_traffic)
                    THEN /\ result.kind = "return"
                         /\ travel_minutes = Minutes(Item(in_traffic, "value").n)
                    ELSE IF CarriesValue(duration)
                    THEN /\ result.kind = "return"
                         /\ travel_minutes = Minutes(Item(duration, "value").n)
                    ELSE result = Raise("TravelTimeError",
                                        "Directions API did not include a travel time.")

(***************************************************************************)
(* C9.  For an HTTP 200, parseable response whose status is not "OK" (a    *)
(* missing status counting as UNKNOWN), get_travel_time returns no value:  *)
(* ZERO_RESULTS fails with "No route found between the selected            *)
(* locations." whatever error_message says, any other status with the      *)
(* provider's non-empty error_message, else with "Directions API error:    *)
(* {status}".                                                              *)
(***************************************************************************)
\* The status a parsed response carries.
StatusOf(body) ==
    IF body.t = "obj" /\ HasKey(body, "status")
    THEN Item(body, "status") ELSE JStr(StatusUnknown)

ErrorMessageOf(body) ==
    IF body.t = "obj" /\ HasKey(body, "error_message")
    THEN Item(body, "error_message") ELSE JNull

C9_NonOkStatusFails ==
    ( /\ InGetTravelTime /\ Done
      /\ ~provider.err /\ provider.status_code = 200 /\ provider.json_ok
      /\ StatusOf(provider.body) # JStr(StatusOK) )
    =>
        /\ result.kind = "raise"
        /\ result.exc = "TravelTimeError"
        /\ result.msg =
             IF StatusOf(provider.body) = JStr(StatusZeroResults)
             THEN "No route found between the selected locations."
             ELSE IF JTruthy(ErrorMessageOf(provider.body))
             THEN PyStr(ErrorMessageOf(provider.body))
             ELSE "Directions API error: " \o PyStr(StatusOf(provider.body))

(***************************************************************************)
(* C10.  For every m >= 0 format_eta(m) is a non-empty text that reads     *)
(* back as "{h} hr {r} min" when h and r are both nonzero, "{h} hr" when   *)
(* only h is, "{r} min" otherwise, with h * 60 + r the integer nearest to  *)
(* m (a tie to the even one) and 0 <= r < 60; 0 gives "0 min", 45 gives    *)
(* "45 min", 60 gives "1 hr", 90 gives "1 hr 30 min" and 125.6 gives       *)
(* "2 hr 6 min".                                                           *)
(***************************************************************************)
\* The number of digits a text starts with.
RECURSIVE LeadingDigits(_)
LeadingDigits(cs) ==
    IF cs # << >> /\ IsDigit(cs[1]) THEN 1 + LeadingDigits(Tail(cs)) ELSE 0

Rest(cs, n) == SubSeq(cs, n + 1, Len(cs))

\* An ETA text read back: its form and the numbers in it.
ParseEta(cs) ==
    LET n1 == LeadingDigits(cs)
        first == NumberOf(SubSeq(cs, 1, n1))
        rest1 == Rest(cs, n1)
    IN  IF n1 = 0 THEN [form |-> "unreadable", hours |-> 0, mins |-> 0]
        ELSE IF rest1 = <<" ","m","i","n">>
        THEN [form |-> "min", hours |-> 0, mins |-> first]
        ELSE IF rest1 = <<" ","h","r">>
        THEN [form |-> "hr", hours |-> first, mins |-> 0]
        ELSE IF StartsWith(rest1, <<" ","h","r"," ">>)
        THEN LET rest2 == Rest(rest1, 4)
                 n2 == LeadingDigits(rest2)
             IN  IF n2 > 0 /\ Rest(rest2, n2) = <<" ","m","i","n">>
                 THEN [form |-> "hr min", hours |-> first,
                       mins |-> NumberOf(SubSeq(rest2, 1, n2))]
                 ELSE [form |-> "unreadable", hours |-> 0, mins |-> 0]
        ELSE [form |-> "unreadable", hours |-> 0, mins |-> 0]

InFormatEta == op = "format_eta"

\* What format_eta must give for some arguments, as tenths of a minute.
EtaExamples ==
    /\ minutes.num = 0    => eta_display = <<"0"," ","m","i","n">>
    /\ minutes.num = 450  => eta_display = <<"4","5"," ","m","i","n">>
    /\ minutes.num = 600  => eta_display = <<"1"," ","h","r">>
    /\ minutes.num = 900  => eta_display = <<"1"," ","h","r"," ","3","0"," ","m","i","n">>
    /\ minutes.num = 1256 => eta_display = <<"2"," ","h","r"," ","6"," ","m","i","n">>

C10_EtaReadsBack ==
    (InFormatEta /\ Done /\ minutes.num >= 0) =>
        LET eta == ParseEta(eta_display)
            total == eta.hours * 60 + eta.mins
        IN  /\ eta_display # << >>
            /\ eta.form # "unreadable"
            /\ eta.mins >= 0 /\ eta.mins < 60 /\ eta.hours >= 0
            \* total is the integer nearest to minutes, a tie going to the even one
            /\ 2 * (total * minutes.den - minutes.num) <= minutes.den
            /\ 2 * (minutes.num - total * minutes.den) <= minutes.den
            /\ 2 * (total * minutes.den - minutes.num) \in {minutes.den, -minutes.den}
                  => total % 2 = 0
            /\ eta.form = IF eta.hours # 0 /\ eta.mins # 0 THEN "hr min"
                          ELSE IF eta.hours # 0 THEN "hr" ELSE "min"
            /\ minutes.den = 10 => EtaExamples

\* 125.6 minutes formatted: rounded up, hours and minutes both shown.
C10_Witness ==
    /\ InFormatEta /\ Done
    /\ minutes = [num |-> 1256, den |-> 10]
    /\ ParseEta(eta_display) = [form |-> "hr min", hours |-> 2, mins |-> 6]


(***************************************************************************)
(* The index view: what a request asked for and what the view called.      *)
(***************************************************************************)
InIndex == op \in {"index_json", "index_form"}

SendAlertCalls ==
    { i \in 1..Len(upstream) : upstream[i].fn = "send_email_alert" }

TravelTimeCalls ==
    { i \in 1..Len(upstream) : upstream[i].fn = "get_travel_time" }

\* get_travel_time was called and returned a value.
TravelTimeKnown ==
    \E j \in TravelTimeCalls : upstream[j].outcome = Returned

\* A field of the posted body or form, None when there is none.
Posted(key) ==
    IF request.body.t = "obj" THEN DictGet(request.body, key, JNull) ELSE JNull

\* The travel time is at or below the threshold.
WithinThreshold == travel_minutes.num <= frame.threshold * travel_minutes.den

(***************************************************************************)
(* C11.  In both branches of the view send_email_alert is called at most   *)
(* once per request, and only after get_travel_time returned a value, with *)
(* notify set in the request and the travel time at or below the           *)
(* threshold, equality included; the should_alert of a JSON answer says    *)
(* whether the travel time is at or below the threshold.                   *)
(***************************************************************************)
C11_AlertOnlyWhenDue ==
    InIndex =>
        /\ Cardinality(SendAlertCalls) <= 1
        /\ \A i \in SendAlertCalls :
              /\ \E j \in TravelTimeCalls : j < i /\ upstream[j].outcome = Returned
              /\ JTruthy(Posted("notify"))
              /\ WithinThreshold
        /\ (op = "index_json" /\ http.ok) => (http.should_alert <=> WithinThreshold)

\* A JSON request whose travel time equals its threshold reached the call.
C11_Witness ==
    /\ op = "index_json" /\ pc = "done"
    /\ SendAlertCalls # {}
    /\ travel_minutes = Minutes(60) /\ frame.threshold = 1

(***************************************************************************)
(* C12.  Every JSON POST ends in a JSON answer that is 200 with ok true,   *)
(* 400 with ok false or 502 with ok false, and never in an error that      *)
(* leaves the view uncaught.                                               *)
(***************************************************************************)
C12_JsonOutcomes ==
    (op = "index_json" /\ pc = "done") =>
        /\ result = Returned
        /\ http.kind = "json"
        /\ \/ http.status = 200 /\ http.ok /\ http.has_result
           \/ http.status = 400 /\ ~http.ok
           \/ http.status = 502 /\ ~http.ok

(***************************************************************************)
(* C13.  In the JSON branch, with notify true, notificationSent false, the *)
(* travel time within the threshold and sender and credential configured,  *)
(* the call of send_email_alert is accepted by the function as defined; a  *)
(* delivery that succeeds ends the request 200 with alert_sent true, and   *)
(* alert_sent is true only after send_email_alert returned.                *)
(***************************************************************************)
C13_AlertSentWhenDelivered ==
    op = "index_json" =>
        /\ \A i \in SendAlertCalls :
              /\ upstream[i].outcome.exc # "TypeError"
              /\ (pc = "done" /\ upstream[i].outcome = Returned)
                    => http = JsonOk(TRUE, TRUE)
        /\ (frame.alert_sent \/ http.alert_sent) =>
              \E i \in SendAlertCalls : upstream[i].outcome = Returned

(***************************************************************************)
(* C15.  In a call with an HTTPS email API URL: when a static token is     *)
(* supplied no token exchange precedes the first send, refresh credentials *)
(* or not; when none is supplied and the credentials are present exactly   *)
(* one exchange precedes the first send, and when that exchange fails the  *)
(* call fails with EmailDeliveryError and makes no send.                   *)
(***************************************************************************)
\* The exchanges made before any send.
ExchangesBeforeFirstSend ==
    { j \in ExchangeIdx : \A i \in SendIdx : j < i }

SecureEmailUrl == StartsWith(Lower(email_api_url), HttpsPrefix)

C15_TokenBeforeFirstSend ==
    (InSendEmailAlert /\ SecureEmailUrl) =>
        /\ Truthy(email_api_key) => ExchangesBeforeFirstSend = {}
        /\ (~Truthy(email_api_key) /\ CredentialsPresent) =>
              /\ Cardinality(ExchangesBeforeFirstSend) <= 1
              /\ SendIdx # {} => Cardinality(ExchangesBeforeFirstSend) = 1
              /\ Done => Cardinality(ExchangesBeforeFirstSend) = 1
              /\ \A j \in ExchangesBeforeFirstSend :
                    (Done /\ ~calls[j].ok) =>
                        /\ SendIdx = {}
                        /\ result.kind = "raise"
                        /\ result.exc = "EmailDeliveryError"

(***************************************************************************)
(* C16.  A token exchange or a second send follows the first send only     *)
(* when the first send was answered 401 and all three refresh credentials  *)
(* are present.  Otherwise the finished call made exactly one send, as its *)
(* last call, and that send decided the outcome: a transport failure ends  *)
(* in EmailDeliveryError "Failed to reach the email API", a status below   *)
(* 400 in a normal return, a status of 400 or more in a failure.           *)
(***************************************************************************)
C16_RetryOnlyAfter401 ==
    InSendEmailAlert =>
        /\ (ExchangesAfterFirstSend # {} \/ SendsAfterFirstSend # {})
              => (FirstSendUnauthorized /\ CredentialsPresent)
        /\ (Done /\ SendIdx # {} /\ ~(FirstSendUnauthorized /\ CredentialsPresent)) =>
              /\ Cardinality(SendIdx) = 1
              /\ calls[Len(calls)].call = "send"
              /\ LET only == calls[Len(calls)]
                 IN  IF ~only.ok
                     THEN result = Raise("EmailDeliveryError", "Failed to reach the email API")
                     ELSE /\ only.status < 400 => result = Returned
                          /\ only.status >= 400 => result.kind = "raise"

\* A finished call answered 401 that had a static token and two credentials.
C16_Witness ==
    /\ InSendEmailAlert /\ Done
    /\ Truthy(email_api_key) /\ ~CredentialsPresent
    /\ Truthy(email_refresh_token) /\ Truthy(oauth_client_secret)
    /\ Len(calls) = 1 /\ calls[1].ok /\ calls[1].status = 401

(***************************************************************************)
(* C17.  get_travel_time classifies in this order: a transport failure     *)
(* fails with "Unable to contact the Google Directions API"; else a status *)
(* other than 200 fails with that status code, whatever the body; else an  *)
(* unparseable body fails with the unreadable-response error; else, for an *)
(* object, a status other than "OK" fails with the status error even when  *)
(* route data is missing; else missing route data fails with the           *)
(* route-data error; the duration is looked at last.                       *)
(***************************************************************************)
RouteDataError ==
    Raise("TravelTimeError", "Directions API response was missing route data")

NoTravelTimeError ==
    Raise("TravelTimeError", "Directions API did not include a travel time.")

C17_ClassificationOrder ==
    (InGetTravelTime /\ Done) =>
        IF provider.err
        THEN result = Raise("TravelTimeError", "Unable to contact the Google Directions API")
        ELSE IF provider.status_code # 200
        THEN result = Raise("TravelTimeError",
                            "Directions API request failed with HTTP "
                                \o ToString(provider.status_code))
        ELSE IF ~provider.json_ok
        THEN result = Raise("TravelTimeError",
                            "Directions API returned an unreadable response")
        ELSE provider.body.t = "obj" =>
               IF StatusOf(provider.body) # JStr(StatusOK)
               THEN /\ result.exc = "TravelTimeError"
                    /\ result.msg =
                         IF StatusOf(provider.body) = JStr(StatusZeroResults)
                         THEN "No route found between the selected locations."
                         ELSE IF JTruthy(ErrorMessageOf(provider.body))
                         THEN PyStr(ErrorMessageOf(provider.body))
                         ELSE "Directions API error: " \o PyStr(StatusOf(provider.body))
               ELSE IF FirstLeg(provider.body).exc \in {"KeyError", "IndexError"}
               THEN result = RouteDataError
               ELSE /\ result # RouteDataError
                    /\ (result = NoTravelTimeError \/ result.kind = "return")
                          => FirstLeg(provider.body).exc = ""

\* A well-formed OK result under HTTP 500, refused for its status code.
C17_Witness ==
    /\ InGetTravelTime /\ Done
    /\ provider = JsonReply(500, DirectionsBody(JStr(StatusOK), Absent, GoodRoutes))
    /\ result.msg = "Directions API request failed with HTTP 500"

(***************************************************************************)
(* C18.  Every send carries a non-empty bearer token.  The first send      *)
(* carries the static token when one is supplied, else the token returned  *)
(* by the successful exchange made just before it.  A retried send carries *)
(* the token returned by the successful exchange made after the 401, just  *)
(* before it, not the token variable of the first send.                    *)
(***************************************************************************)
IsFirstSend(i) == i \in SendIdx /\ \A k \in SendIdx : i <= k

\* The call before call i is a successful exchange that returned this token.
FreshlyExchanged(i, token) ==
    /\ i > 1
    /\ calls[i - 1].call = "exchange" /\ calls[i - 1].ok
    /\ calls[i - 1].token = token

C18_SendTokens ==
    InSendEmailAlert =>
        \A i \in SendIdx :
            /\ Truthy(calls[i].token)
            /\ IsFirstSend(i) =>
                  IF Truthy(email_api_key)
                  THEN calls[i].token = email_api_key
                  ELSE FreshlyExchanged(i, calls[i].token)
            /\ ~IsFirstSend(i) =>
                  /\ FreshlyExchanged(i, calls[i].token)
                  /\ i - 1 \in ExchangesAfterFirstSend

\* A retried send whose token differs from the one the first send carried.
C18_Witness ==
    /\ InSendEmailAlert /\ ~Truthy(email_api_key)
    /\ Len(calls) = 4
    /\ calls[2].call = "send" /\ calls[4].call = "send"
    /\ calls[2].token # calls[4].token

(***************************************************************************)
(* C19.  In the JSON branch a request with a truthy notificationSent never *)
(* reaches send_email_alert; when it passes validation and travel-time     *)
(* retrieval it ends 200 with alert_sent false and should_alert saying     *)
(* whether the travel time is at or below the threshold.                   *)
(***************************************************************************)
C19_NoRepeatedAlert ==
    (op = "index_json" /\ JTruthy(Posted("notificationSent"))) =>
        /\ SendAlertCalls = {}
        /\ (pc = "done" /\ TravelTimeKnown) =>
              /\ result = Returned
              /\ http = JsonOk(WithinThreshold, FALSE)

\* An alert that was due and could be sent, held back by notificationSent.
C19_Witness ==
    /\ op = "index_json" /\ pc = "done"
    /\ JTruthy(Posted("notificationSent")) /\ JTruthy(Posted("notify"))
    /\ TravelTimeKnown /\ WithinThreshold
    /\ Truthy(config.email_from) /\ Truthy(config.email_password)
    /\ http.status = 200 /\ ~http.alert_sent

(***************************************************************************)
(* C20.  In both branches validation comes before every upstream call: a   *)
(* request whose origin or destination is empty after trimming, that asks  *)
(* to notify without an email address, or that meets no configured Maps    *)
(* API key, ends without get_travel_time or send_email_alert being called  *)
(* and without a result.  get_travel_time is called at most once per       *)
(* request and before any call of send_email_alert.                        *)
(***************************************************************************)
\* The request, once read, is one that validation refuses.
Refusable ==
    /\ pc # "start"
    /\ \/ frame.origin = << >>
       \/ frame.destination = << >>
       \/ frame.notify /\ frame.email_to = << >>
       \/ ~Truthy(config.google_maps_api_key)

C20_ValidationFirst ==
    InIndex =>
        /\ Refusable =>
              /\ upstream = << >>
              /\ pc = "done" => (~http.ok /\ ~http.has_result)
        /\ Cardinality(TravelTimeCalls) <= 1
        /\ \A i \in SendAlertCalls : \E j \in TravelTimeCalls : j < i

\* A form with both addresses, refused for want of a Maps API key.
C20_Witness ==
    /\ op = "index_form" /\ pc = "done"
    /\ frame.origin # << >> /\ frame.destination # << >>
    /\ ~Truthy(config.google_maps_api_key)
    /\ http = Redirect /\ upstream = << >>

====
